---- MODULE Spec2Model ----
(***************************************************************************)
(* Multi-tenant notes application: the notes edge function, the            *)
(* upgrade-tenant edge function, the Dashboard's direct tenant update and  *)
(* the row-level-security policies of the tenants, profiles and notes      *)
(* tables they all run against.                                            *)
(*                                                                         *)
(* A request is handled in steps; every `await` of a handler is one step,  *)
(* so that two requests can interleave exactly where the code yields.      *)
(***************************************************************************)
EXTENDS Integers, Sequences, FiniteSets, TLC

(***************************************************************************)
(* Bounds of the model.                                                    *)
(***************************************************************************)
\* ids handed out to notes in the specification with every user and input
MaxNotes == 3
\* ids handed out to notes in the quota specifications (one tenant)
MaxQuotaNotes == 5
\* requests that can be in flight at once
MaxInFlight == 2
\* Sign-in and sign-out events on the page
MaxAuthEvents == 3

(***************************************************************************)
(* Program constants.                                                      *)
(***************************************************************************)
\* `noteCount >= 3`
QuotaLimit == 3

\* JavaScript's undefined (a key that JSON.stringify drops) and SQL NULL
UNDEF == "undefined"
NULL == "null"

\* The two seeded tenants: id -> slug
TenantIds == {"T_acme", "T_globex"}
TenantSlug == [t \in TenantIds |-> IF t = "T_acme" THEN "acme" ELSE "globex"]

\* The four seeded users (testUsers of seed-test-users)
SeedProfiles ==
    { [user_id |-> "admin_acme",   tenant_id |-> "T_acme",   role |-> "admin"],
      [user_id |-> "user_acme",    tenant_id |-> "T_acme",   role |-> "member"],
      [user_id |-> "admin_globex", tenant_id |-> "T_globex", role |-> "admin"],
      [user_id |-> "user_globex",  tenant_id |-> "T_globex", role |-> "member"] }
SeedUsers == { p.user_id : p \in SeedProfiles }

\* auth.users: the seeded users and one identity that signed up but has no
\* profile row
AuthUsers == SeedUsers \cup {"newcomer"}
\* bearer tokens: one per identity, and one that the auth service rejects
Tokens == AuthUsers \cup {"bad_token"}
NoUser == "no_user"

\* Request bodies {title, content} sent to the notes function
CreateBodies ==
    { [title |-> "t1",  content |-> "c1"],
      [title |-> "",    content |-> "c2"],
      [title |-> UNDEF, content |-> "c1"] }
UpdateBodies ==
    { [title |-> "t1",  content |-> "c1"],
      [title |-> "",    content |-> "c2"] }
ValidBodies == { [title |-> "t1", content |-> "c1"] }

\* req.method
Methods == {"GET", "POST", "PUT", "DELETE"}

\* url.pathname.split('/') of the requests sent to upgrade-tenant
ReadmePath == <<"", "functions", "v1", "upgrade-tenant">>
UpgradePaths ==
    { ReadmePath,
      <<"", "functions", "v1", "upgrade-tenant", "tenants", "acme">>,
      <<"", "functions", "v1", "upgrade-tenant", "tenants", "globex">> }
NoPath == <<>>

VARIABLES tenants, profiles, notes, nextId, reqs, provider, client
vars == <<tenants, profiles, notes, nextId, reqs, provider, client>>

\* The browser page: the state of AuthProvider and of the auth client
pageVars == <<provider, client>>

Slots == 1..MaxInFlight

NoProfile == [user_id |-> NoUser, tenant_id |-> "", role |-> ""]
NoBody == [title |-> UNDEF, content |-> UNDEF]

\* The two versions of AuthProvider the file holds
Versions == {1, 2}

\* The users who sign in on the page; the last one has no profile row
PageUsers == {"user_acme", "admin_globex", "newcomer"}

\* AuthProvider after its first render and its effect: the useState initial
\* values, isMounted = true, the listener subscribed, getSession() pending;
\* null is NULL for user and session and NoProfile for profile
ProviderStart(v) ==
    [ version |-> v, isMounted |-> TRUE, user |-> NULL, session |-> NULL,
      profile |-> NoProfile, loading |-> TRUE, sessionCheck |-> "pending",
      fetches |-> {}, started |-> 0 ]

\* A slot that holds no request
Idle ==
    [ ep |-> "", method |-> "", token |-> "", pc |-> "idle",
      user |-> NoUser, profile |-> NoProfile,
      op |-> "", noteId |-> 0, body |-> NoBody,
      plan |-> "", noteCount |-> 0, path |-> NoPath,
      target |-> "", status |-> 0, err |-> "", out |-> <<>>, outPlan |-> "",
      fault |-> "" ]

(***************************************************************************)
(* The tables and the SQL functions of the migration.                      *)
(***************************************************************************)
\* SELECT tenant_id FROM public.profiles WHERE user_id = auth.uid()
UserTenantIds(uid) == { p.tenant_id : p \in { q \in profiles : q.user_id = uid } }

\* SELECT p.tenant_id FROM profiles p WHERE p.user_id = auth.uid() AND p.role = 'admin'
AdminTenantIds(uid) ==
    { p.tenant_id : p \in { q \in profiles : q.user_id = uid /\ q.role = "admin" } }

\* Mutant: the count has no WHERE clause
get_tenant_note_count_AllTenants(tenant_uuid) == Cardinality(notes)

\* Mutant: a remembered count, the number of notes ever created
get_tenant_note_count_EverCreated(tenant_uuid) == nextId - 1

\* Mutant: the count filters on the wrong column
get_tenant_note_count_WrongColumn(tenant_uuid) ==
    Cardinality({ n \in notes : n.user_id = tenant_uuid })

\* get_tenant_note_count(tenant_uuid): SECURITY DEFINER, so no row policy applies
get_tenant_note_count(tenant_uuid) ==
    Cardinality({ n \in notes : n.tenant_id = tenant_uuid })

\* Mutant: the policy asks has_role(auth.uid(), 'admin') and forgets the tenant
TenantsUpdatePolicy_AnyAdmin(uid, t) ==
    \E p \in profiles : p.user_id = uid /\ p.role = "admin"

\* Row policies; uid is auth.uid()
TenantsSelectPolicy(uid, t) == t \in UserTenantIds(uid)
TenantsUpdatePolicy(uid, t) == t \in AdminTenantIds(uid)
ProfilesSelectPolicy(uid, p) ==
    \/ p.tenant_id \in UserTenantIds(uid)
    \/ p.user_id = uid
NotesSelectPolicy(uid, n) == n.tenant_id \in UserTenantIds(uid)
NotesInsertPolicy(uid, n) ==
    /\ n.tenant_id \in UserTenantIds(uid)
    /\ n.user_id = uid
NotesUpdatePolicy(uid, n) ==
    /\ n.user_id = uid
    /\ n.tenant_id \in UserTenantIds(uid)
NotesDeletePolicy(uid, n) ==
    /\ n.user_id = uid
    /\ n.tenant_id \in UserTenantIds(uid)

Init ==
    /\ tenants = [t \in TenantIds |-> [slug |-> TenantSlug[t], subscription_plan |-> "free"]]
    /\ profiles = SeedProfiles
    /\ notes = {}
    /\ nextId = 1
    /\ reqs = [s \in Slots |-> Idle]
    /\ provider = ProviderStart(2)
    /\ client = [session |-> NULL, events |-> 0]

\* The page opened with either version, with or without a persisted session
InitAuth ==
    /\ tenants = [t \in TenantIds |-> [slug |-> TenantSlug[t], subscription_plan |-> "free"]]
    /\ profiles = SeedProfiles
    /\ notes = {}
    /\ nextId = 1
    /\ reqs = [s \in Slots |-> Idle]
    /\ provider \in { ProviderStart(v) : v \in Versions }
    /\ client \in { [session |-> u, events |-> 0] : u \in PageUsers \cup {NULL} }


(***************************************************************************)
(* Helpers shared by the handlers.                                         *)
(***************************************************************************)
\* Mutant: the token is taken for the user without asking the auth service
getUser_AnyToken(token) == token

\* supabase.auth.getUser(): the user of a token, or null
getUser(token) == IF token \in AuthUsers THEN token ELSE NoUser

\* .single(): the one row of a result, or `none` with an error
Single(rows, none) == IF Cardinality(rows) = 1 THEN CHOOSE r \in rows : TRUE ELSE none
SingleError(rows) == Cardinality(rows) # 1

\* Mutant: .order('created_at') with the default, ascending
RECURSIVE OrderDesc_Ascending(_)
OrderDesc_Ascending(rows) ==
    IF rows = {} THEN <<>>
    ELSE LET oldest == CHOOSE r \in rows : \A q \in rows : r.created_at <= q.created_at
         IN  <<oldest>> \o OrderDesc_Ascending(rows \ {oldest})

\* .order('created_at', { ascending: false })
RECURSIVE OrderDesc(_)
OrderDesc(rows) ==
    IF rows = {} THEN <<>>
    ELSE LET newest == CHOOSE r \in rows : \A q \in rows : q.created_at <= r.created_at
         IN  <<newest>> \o OrderDesc(rows \ {newest})

\* return new Response(JSON.stringify(...), { status })
Respond(s, status, err, out, outPlan) ==
    reqs' = [reqs EXCEPT ![s] = [@ EXCEPT !.pc = "done", !.status = status,
                                          !.err = err, !.out = out, !.outPlan = outPlan]]

storeVars == <<tenants, profiles, notes, nextId>>

\* A request arrives at one of the two edge functions
Receive(s, tokens, endpoints, methods, serial) ==
    /\ reqs[s].pc = "idle"
    /\ serial => (s = 1 /\ \A s2 \in Slots : reqs[s2].pc = "idle")
    /\ \E token \in tokens, ep \in endpoints :
         \E method \in (IF ep = "notes" THEN methods ELSE methods \cap {"GET", "POST"}) :
            reqs' = [reqs EXCEPT ![s] = [Idle EXCEPT !.ep = ep, !.method = method,
                                                     !.token = token, !.pc = "getUser"]]
    /\ UNCHANGED storeVars
    /\ UNCHANGED pageVars

\* The caller has read the response
Deliver(s) ==
    /\ reqs[s].pc = "done"
    /\ reqs' = [reqs EXCEPT ![s] = Idle]
    /\ UNCHANGED storeVars
    /\ UNCHANGED pageVars

(***************************************************************************)
(* supabase/functions/notes/index.ts                                       *)
(***************************************************************************)
\* const { data: { user }, error } = await supabase.auth.getUser()
NotesGetUser(s) ==
    /\ reqs[s].ep = "notes" /\ reqs[s].pc = "getUser"
    /\ LET user == getUser(reqs[s].token) IN
         IF user = NoUser
         THEN Respond(s, 401, "Unauthorized", <<>>, "")
         ELSE reqs' = [reqs EXCEPT ![s] = [@ EXCEPT !.user = user, !.pc = "profile"]]
    /\ UNCHANGED storeVars
    /\ UNCHANGED pageVars

\* from('profiles').select('tenant_id, role').eq('user_id', user.id).single()
SelectProfile(uid) ==
    Single({ p \in profiles : p.user_id = uid /\ ProfilesSelectPolicy(uid, p) }, NoProfile)

NotesGetProfile(s) ==
    /\ reqs[s].ep = "notes" /\ reqs[s].pc = "profile"
    /\ LET profile == SelectProfile(reqs[s].user) IN
         IF profile = NoProfile
         THEN Respond(s, 404, "Profile not found", <<>>, "")
         ELSE reqs' = [reqs EXCEPT ![s] = [@ EXCEPT !.profile = profile, !.pc = "route"]]
    /\ UNCHANGED storeVars
    /\ UNCHANGED pageVars

\* Mutant: an admin may update any note of the tenant
UpdateRows_AdminBypass(uid, tenant_id, id) ==
    { n \in notes : /\ n.id = id
                    /\ n.tenant_id = tenant_id
                    /\ (n.user_id = uid \/ tenant_id \in AdminTenantIds(uid)) }

\* The rows an update of the notes function matches:
\* .eq('id', id).eq('user_id', user.id).eq('tenant_id', profile.tenant_id)
\* under the UPDATE policy of the notes table
UpdateRows(uid, tenant_id, id) ==
    { n \in notes : /\ n.id = id
                    /\ n.user_id = uid
                    /\ n.tenant_id = tenant_id
                    /\ NotesUpdatePolicy(uid, n) }

\* operation === 'update'
NotesUpdate(s) ==
    /\ reqs[s].ep = "notes" /\ reqs[s].pc = "route" /\ reqs[s].method = "POST"
    /\ \E id \in 1..nextId, body \in UpdateBodies :
         LET r == reqs[s]
             rows == UpdateRows(r.user, r.profile.tenant_id, id)
             updated == { [n EXCEPT !.title = body.title, !.content = body.content] : n \in rows }
         IN  /\ notes' = (notes \ rows) \cup updated
             /\ reqs' = [reqs EXCEPT ![s] =
                   [@ EXCEPT !.op = "update", !.noteId = id, !.body = body, !.pc = "done",
                             !.status = IF SingleError(updated) THEN 500 ELSE 200,
                             !.err = IF SingleError(updated) THEN "PGRST116" ELSE "",
                             !.out = IF SingleError(updated) THEN <<>>
                                     ELSE <<Single(updated, 0)>>]]
    /\ UNCHANGED <<tenants, profiles, nextId>>
    /\ UNCHANGED pageVars

\* Mutant: the delete filters on id and tenant, and the policy on the tenant
DeleteRows_TenantOnly(uid, tenant_id, id) ==
    { n \in notes : n.id = id /\ n.tenant_id = tenant_id /\ NotesSelectPolicy(uid, n) }

\* The rows a delete of the notes function matches, under the DELETE policy
DeleteRows(uid, tenant_id, id) ==
    { n \in notes : /\ n.id = id
                    /\ n.user_id = uid
                    /\ n.tenant_id = tenant_id
                    /\ NotesDeletePolicy(uid, n) }

\* operation === 'delete'
NotesDelete(s) ==
    /\ reqs[s].ep = "notes" /\ reqs[s].pc = "route" /\ reqs[s].method = "POST"
    /\ \E id \in 1..nextId :
         LET r == reqs[s]
             rows == DeleteRows(r.user, r.profile.tenant_id, id)
         IN  /\ notes' = notes \ rows
             /\ reqs' = [reqs EXCEPT ![s] =
                   [@ EXCEPT !.op = "delete", !.noteId = id, !.pc = "done",
                             !.status = 200, !.err = ""]]
    /\ UNCHANGED <<tenants, profiles, nextId>>
    /\ UNCHANGED pageVars

\* Creates that have passed the start of the create branch and not yet answered
CreatesInFlight == { s \in Slots : reqs[s].op = "create" /\ reqs[s].pc \in {"count", "insert"} }

\* from('tenants').select('subscription_plan').eq('id', tenant_id).single():
\* the plan, or "" when data is null
SelectPlan(uid, tenant_id) ==
    LET rows == { t \in TenantIds : t = tenant_id /\ TenantsSelectPolicy(uid, t) }
    IN  IF SingleError(rows) THEN "" ELSE tenants[Single(rows, "")].subscription_plan

\* Mutant: the limit is applied whatever the plan
PlanIsLimited_AnyPlan(plan) == TRUE

\* Mutant: noteCount > 3
OverQuota_OffByOne(noteCount) == noteCount > QuotaLimit

\* tenant?.subscription_plan === 'free'
PlanIsLimited(plan) == plan = "free"

\* noteCount >= 3
OverQuota(noteCount) == noteCount >= QuotaLimit

\* !operation: the create branch starts with the lookup of the tenant's plan
NotesCreateReadPlan(s, bodies, cap) ==
    /\ reqs[s].ep = "notes" /\ reqs[s].pc = "route" /\ reqs[s].method = "POST"
    /\ nextId + Cardinality(CreatesInFlight) <= cap
    /\ \E body \in bodies :
         LET r == reqs[s]
             plan == SelectPlan(r.user, r.profile.tenant_id)
         IN  reqs' = [reqs EXCEPT ![s] =
                [@ EXCEPT !.op = "create", !.body = body, !.plan = plan,
                          !.pc = IF PlanIsLimited(plan) THEN "count" ELSE "insert"]]
    /\ UNCHANGED storeVars
    /\ UNCHANGED pageVars

\* Mutant: the note is inserted before the count is compared, and stays
\* stored when the request is then refused
NotesCreateCount_InsertFirst(s) ==
    /\ reqs[s].ep = "notes" /\ reqs[s].pc = "count"
    /\ LET r == reqs[s]
           noteCount == get_tenant_note_count(r.profile.tenant_id)
           row == [ id |-> nextId, tenant_id |-> r.profile.tenant_id, user_id |-> r.user,
                    title |-> r.body.title, content |-> r.body.content,
                    created_at |-> nextId ]
       IN  IF OverQuota(noteCount)
           THEN /\ notes' = notes \cup {row}
                /\ nextId' = nextId + 1
                /\ reqs' = [reqs EXCEPT ![s] =
                      [@ EXCEPT !.noteCount = noteCount, !.pc = "done", !.status = 403,
                                !.err = "Free plan limited to 3 notes"]]
           ELSE /\ UNCHANGED <<notes, nextId>>
                /\ reqs' = [reqs EXCEPT ![s] =
                      [@ EXCEPT !.noteCount = noteCount, !.pc = "insert"]]
    /\ UNCHANGED <<tenants, profiles>>
    /\ UNCHANGED pageVars

\* rpc('get_tenant_note_count') and the 403 of the free plan
NotesCreateCount(s) ==
    /\ reqs[s].ep = "notes" /\ reqs[s].pc = "count"
    /\ LET noteCount == get_tenant_note_count(reqs[s].profile.tenant_id) IN
         reqs' = [reqs EXCEPT ![s] =
            IF OverQuota(noteCount)
            THEN [@ EXCEPT !.noteCount = noteCount, !.pc = "done", !.status = 403,
                           !.err = "Free plan limited to 3 notes"]
            ELSE [@ EXCEPT !.noteCount = noteCount, !.pc = "insert"]]
    /\ UNCHANGED storeVars
    /\ UNCHANGED pageVars

\* The plan lookup fails (timeout, connection lost, store error): the client
\* does not throw, it returns { data: null, error }; the handler reads data
\* only, so tenant is null and tenant?.subscription_plan is undefined
NotesCreateReadPlanFault(s, bodies, cap) ==
    /\ reqs[s].ep = "notes" /\ reqs[s].pc = "route" /\ reqs[s].method = "POST"
    /\ nextId + Cardinality(CreatesInFlight) <= cap
    /\ \E body \in bodies :
         reqs' = [reqs EXCEPT ![s] =
            [@ EXCEPT !.op = "create", !.body = body, !.plan = UNDEF, !.fault = "plan",
                      !.pc = IF PlanIsLimited(UNDEF) THEN "count" ELSE "insert"]]
    /\ UNCHANGED storeVars
    /\ UNCHANGED pageVars

\* The count rpc fails: noteCount is null, and null >= 3 is false in JavaScript
NotesCreateCountFault(s) ==
    /\ reqs[s].ep = "notes" /\ reqs[s].pc = "count"
    /\ reqs' = [reqs EXCEPT ![s] = [@ EXCEPT !.fault = "count", !.pc = "insert"]]
    /\ UNCHANGED storeVars
    /\ UNCHANGED pageVars

\* The row the create branch inserts
NewNote(id, uid, tenant_id, body) ==
    [ id |-> id, tenant_id |-> tenant_id, user_id |-> uid,
      title |-> IF body.title = UNDEF THEN NULL ELSE body.title,
      content |-> IF body.content = UNDEF THEN NULL ELSE body.content,
      created_at |-> id ]

\* The insert is accepted: title TEXT NOT NULL and the INSERT policy
InsertAccepted(uid, row) ==
    /\ row.title # NULL
    /\ NotesInsertPolicy(uid, row)

\* from('notes').insert({...}).select().single()
NotesCreateInsert(s) ==
    /\ reqs[s].ep = "notes" /\ reqs[s].pc = "insert"
    /\ LET r == reqs[s]
           row == NewNote(nextId, r.user, r.profile.tenant_id, r.body)
       IN  IF InsertAccepted(r.user, row)
           THEN /\ notes' = notes \cup {row}
                /\ nextId' = nextId + 1
                /\ Respond(s, 201, "", <<row>>, "")
           ELSE /\ UNCHANGED <<notes, nextId>>
                /\ Respond(s, 500, "insert rejected", <<>>, "")
    /\ UNCHANGED <<tenants, profiles>>
    /\ UNCHANGED pageVars

\* Mutant: the select carries the .eq('user_id', user.id) of update and delete
GetRows_OwnerScoped(uid, tenant_id, id) ==
    { n \in notes : /\ n.id = id
                    /\ n.user_id = uid
                    /\ n.tenant_id = tenant_id
                    /\ NotesSelectPolicy(uid, n) }

\* Mutant: the select filters on the id alone and runs outside the row policy
GetRows_Unscoped(uid, tenant_id, id) == { n \in notes : n.id = id }

\* The rows GET notes/{id} selects: .eq('id', noteId).eq('tenant_id', profile.tenant_id)
\* under the SELECT policy
GetRows(uid, tenant_id, id) ==
    { n \in notes : /\ n.id = id
                    /\ n.tenant_id = tenant_id
                    /\ NotesSelectPolicy(uid, n) }

\* case 'GET' with a note id as the last path segment
NotesGetOne(s) ==
    /\ reqs[s].ep = "notes" /\ reqs[s].pc = "route" /\ reqs[s].method = "GET"
    /\ \E id \in 1..nextId :
         LET r == reqs[s]
             rows == GetRows(r.user, r.profile.tenant_id, id)
         IN  reqs' = [reqs EXCEPT ![s] =
                [@ EXCEPT !.op = "get", !.noteId = id, !.pc = "done",
                          !.status = IF SingleError(rows) THEN 404 ELSE 200,
                          !.err = IF SingleError(rows) THEN "Note not found" ELSE "",
                          !.out = IF SingleError(rows) THEN <<>> ELSE <<Single(rows, 0)>>]]
    /\ UNCHANGED storeVars
    /\ UNCHANGED pageVars

\* The rows GET notes selects
ListRows(uid, tenant_id) ==
    { n \in notes : n.tenant_id = tenant_id /\ NotesSelectPolicy(uid, n) }

\* case 'GET' without a note id
NotesList(s) ==
    /\ reqs[s].ep = "notes" /\ reqs[s].pc = "route" /\ reqs[s].method = "GET"
    /\ LET r == reqs[s] IN
         reqs' = [reqs EXCEPT ![s] =
            [@ EXCEPT !.op = "list", !.pc = "done", !.status = 200,
                      !.out = OrderDesc(ListRows(r.user, r.profile.tenant_id))]]
    /\ UNCHANGED storeVars
    /\ UNCHANGED pageVars

\* default: PUT, DELETE, and a POST whose operation is none of the three
NotesMethodNotAllowed(s) ==
    /\ reqs[s].ep = "notes" /\ reqs[s].pc = "route" /\ reqs[s].method # "GET"
    /\ reqs' = [reqs EXCEPT ![s] =
          [@ EXCEPT !.op = "other", !.pc = "done", !.status = 405,
                    !.err = "Method not allowed"]]
    /\ UNCHANGED storeVars
    /\ UNCHANGED pageVars

(***************************************************************************)
(* The upgrade-tenant edge function.                                       *)
(***************************************************************************)
\* Array.prototype.indexOf: the 0-based index of the first x, or -1
JsIndexOf(parts, x) ==
    IF \E i \in 1..Len(parts) : parts[i] = x
    THEN (CHOOSE i \in 1..Len(parts) : parts[i] = x /\ \A j \in 1..(i - 1) : parts[j] # x) - 1
    ELSE -1

\* parts[i] of a JavaScript array: undefined outside the array
JsAt(parts, i) == IF i >= 0 /\ i < Len(parts) THEN parts[i + 1] ELSE UNDEF

\* const tenantSlug = pathParts[pathParts.indexOf('tenants') + 1]
TenantSlugOf(pathParts) == JsAt(pathParts, JsIndexOf(pathParts, "tenants") + 1)

\* req.method !== 'POST' -> 405, then supabase.auth.getUser()
UpgradeGetUser(s) ==
    /\ reqs[s].ep = "upgrade" /\ reqs[s].pc = "getUser"
    /\ LET user == getUser(reqs[s].token) IN
         IF reqs[s].method # "POST"
         THEN Respond(s, 405, "Method not allowed", <<>>, "")
         ELSE IF user = NoUser
         THEN Respond(s, 401, "Unauthorized", <<>>, "")
         ELSE reqs' = [reqs EXCEPT ![s] = [@ EXCEPT !.user = user, !.pc = "profile"]]
    /\ UNCHANGED storeVars
    /\ UNCHANGED pageVars

\* Mutant: only the missing profile is refused
AdminRequired_ProfileOnly(profile) == profile = NoProfile

\* !profile || profile.role !== 'admin'
AdminRequired(profile) == profile = NoProfile \/ profile.role # "admin"

UpgradeGetProfile(s) ==
    /\ reqs[s].ep = "upgrade" /\ reqs[s].pc = "profile"
    /\ LET profile == SelectProfile(reqs[s].user) IN
         IF AdminRequired(profile)
         THEN reqs' = [reqs EXCEPT ![s] =
                 [@ EXCEPT !.profile = profile, !.pc = "done", !.status = 403,
                           !.err = "Admin access required"]]
         ELSE reqs' = [reqs EXCEPT ![s] = [@ EXCEPT !.profile = profile, !.pc = "tenant"]]
    /\ UNCHANGED storeVars
    /\ UNCHANGED pageVars

\* !tenant || tenant.slug !== tenantSlug
SlugMismatch(uid, tenant_id, tenantSlug) ==
    LET rows == { t \in TenantIds : t = tenant_id /\ TenantsSelectPolicy(uid, t) }
    IN  SingleError(rows) \/ tenants[Single(rows, "")].slug # tenantSlug

\* The tenant is read and its slug compared with the one taken from the URL
UpgradeCheckTenant(s) ==
    /\ reqs[s].ep = "upgrade" /\ reqs[s].pc = "tenant"
    /\ \E path \in UpgradePaths :
         LET r == reqs[s]
             plan == SelectPlan(r.user, r.profile.tenant_id)
         IN  IF SlugMismatch(r.user, r.profile.tenant_id, TenantSlugOf(path))
             THEN reqs' = [reqs EXCEPT ![s] =
                     [@ EXCEPT !.path = path, !.plan = plan, !.pc = "done", !.status = 404,
                               !.err = "Tenant not found or access denied"]]
             ELSE reqs' = [reqs EXCEPT ![s] =
                     [@ EXCEPT !.path = path, !.plan = plan, !.pc = "update"]]
    /\ UNCHANGED storeVars
    /\ UNCHANGED pageVars

\* Mutant: the update also carries .eq('subscription_plan', 'free')
TenantUpdateRows_OnlyFree(uid, tenant_id) ==
    { t \in TenantIds : /\ t = tenant_id
                        /\ tenants[t].subscription_plan = "free"
                        /\ TenantsUpdatePolicy(uid, t) }

\* The rows from('tenants').update(...).eq('id', tenant_id) changes, under the
\* UPDATE policy of the tenants table
TenantUpdateRows(uid, tenant_id) ==
    { t \in TenantIds : t = tenant_id /\ TenantsUpdatePolicy(uid, t) }

\* Mutant: the update writes no subscription_plan
SetPlan_NoPlan(rows, plan) == tenants

\* update({ subscription_plan: 'pro' })
SetPlan(rows, plan) ==
    [t \in TenantIds |-> IF t \in rows THEN [tenants[t] EXCEPT !.subscription_plan = plan]
                         ELSE tenants[t]]

\* from('tenants').update({ subscription_plan: 'pro' }).eq('id', ...).select().single()
UpgradeUpdate(s) ==
    /\ reqs[s].ep = "upgrade" /\ reqs[s].pc = "update"
    /\ LET r == reqs[s]
           rows == TenantUpdateRows(r.user, r.profile.tenant_id)
       IN  /\ tenants' = SetPlan(rows, "pro")
           /\ IF SingleError(rows)
              THEN Respond(s, 500, "PGRST116", <<>>, "")
              ELSE Respond(s, 200, "", <<>>, "pro")
    /\ UNCHANGED <<profiles, notes, nextId>>
    /\ UNCHANGED pageVars

(***************************************************************************)
(* Dashboard.handleUpgrade: the browser updates the tenants table itself.  *)
(***************************************************************************)
\* if (!tenant || profile?.role !== "admin") return; then
\* from("tenants").update({ subscription_plan: "pro" }).eq("id", tenant.id)
\* The profile and the tenant the page holds are the rows it fetched.
handleUpgrade(s, tokens, serial) ==
    /\ reqs[s].pc = "idle"
    /\ serial => (s = 1 /\ \A s2 \in Slots : reqs[s2].pc = "idle")
    /\ \E token \in tokens :
         LET user == getUser(token)
             profile == SelectProfile(user)
             rows == TenantUpdateRows(user, profile.tenant_id)
         IN  /\ user # NoUser
             /\ SelectPlan(user, profile.tenant_id) # ""
             /\ profile.role = "admin"
             /\ tenants' = SetPlan(rows, "pro")
             /\ reqs' = [reqs EXCEPT ![s] =
                   [Idle EXCEPT !.ep = "dashboard", !.token = token, !.user = user,
                                !.profile = profile, !.op = "upgrade", !.pc = "done",
                                !.status = 200]]
    /\ UNCHANGED <<profiles, notes, nextId>>
    /\ UNCHANGED pageVars

\* The same update sent by any signed-in user with any tenant id and plan:
\* the browser holds the key and the user's token, the guard above is only
\* the page's own; the row policy is what the table enforces.
DirectTenantsUpdate(s, serial) ==
    /\ reqs[s].pc = "idle"
    /\ serial => (s = 1 /\ \A s2 \in Slots : reqs[s2].pc = "idle")
    /\ \E user \in AuthUsers, t \in TenantIds, plan \in {"free", "pro"} :
         /\ tenants' = SetPlan(TenantUpdateRows(user, t), plan)
         /\ reqs' = [reqs EXCEPT ![s] =
               [Idle EXCEPT !.ep = "direct", !.token = user, !.user = user,
                            !.op = "tenants.update", !.target = t, !.plan = plan,
                            !.pc = "done", !.status = 200]]
    /\ UNCHANGED <<profiles, notes, nextId>>
    /\ UNCHANGED pageVars

(***************************************************************************)
(* The tables as a signed-in user reaches them with the browser's client:  *)
(* the statement is the user's choice, the row policies are what applies.  *)
(***************************************************************************)
Roles == {"admin", "member"}

\* "Users can update their own profile": FOR UPDATE USING (user_id = auth.uid());
\* without a WITH CHECK the USING expression is applied to the new row too
ProfilesUpdatePolicy(uid, p) == p.user_id = uid

\* from("profiles").update({ tenant_id, role }).eq("user_id", target)
\* tenant_id references tenants(id) and role is an app_role
DirectProfileUpdate(s, tokens, serial) ==
    /\ reqs[s].pc = "idle"
    /\ serial => (s = 1 /\ \A s2 \in Slots : reqs[s2].pc = "idle")
    /\ \E token \in tokens, target \in tokens, t \in TenantIds, role \in Roles :
         LET user == getUser(token)
             rows == { p \in profiles : p.user_id = target /\ ProfilesUpdatePolicy(user, p) }
             new == { [p EXCEPT !.tenant_id = t, !.role = role] : p \in rows }
             checked == \A p \in new : ProfilesUpdatePolicy(user, p)
         IN  /\ user # NoUser
             /\ profiles' = IF checked THEN (profiles \ rows) \cup new ELSE profiles
             /\ reqs' = [reqs EXCEPT ![s] =
                   [Idle EXCEPT !.ep = "direct", !.token = token, !.user = user,
                                !.op = "profiles.update", !.target = target,
                                !.pc = "done", !.status = IF checked THEN 200 ELSE 403]]
    /\ UNCHANGED <<tenants, notes, nextId>>
    /\ UNCHANGED pageVars

\* from("notes").insert({ title, content, tenant_id, user_id })
DirectNotesInsert(s, tokens, bodies, cap, serial) ==
    /\ reqs[s].pc = "idle"
    /\ serial => (s = 1 /\ \A s2 \in Slots : reqs[s2].pc = "idle")
    /\ nextId <= cap
    /\ \E token \in tokens, owner \in tokens, t \in TenantIds, body \in bodies :
         LET user == getUser(token)
             row == NewNote(nextId, owner, t, body)
             ok == InsertAccepted(user, row)
         IN  /\ user # NoUser
             /\ notes' = IF ok THEN notes \cup {row} ELSE notes
             /\ nextId' = IF ok THEN nextId + 1 ELSE nextId
             /\ reqs' = [reqs EXCEPT ![s] =
                   [Idle EXCEPT !.ep = "direct", !.token = token, !.user = user,
                                !.op = "notes.insert", !.target = t, !.body = body,
                                !.noteId = IF ok THEN row.id ELSE 0,
                                !.pc = "done", !.status = IF ok THEN 201 ELSE 403]]
    /\ UNCHANGED <<tenants, profiles>>
    /\ UNCHANGED pageVars

(***************************************************************************)
(* AuthProvider (AuthContext.tsx): the effect's listener, the initial       *)
(* session check and the profile fetches, which settle in any order.       *)
(***************************************************************************)
\* fetchProfile(userId) is called: one more query is outstanding
StartFetch(p, userId) ==
    [p EXCEPT !.fetches = @ \cup {[k |-> p.started + 1, userId |-> userId]},
              !.started = @ + 1]

\* The listener given to onAuthStateChange; a session is modelled by its user.
\* After the cleanup (isMounted = false, unsubscribe) it changes nothing.
AuthCallback(p, session) ==
    IF ~p.isMounted THEN p
    ELSE LET q == [p EXCEPT !.session = session, !.user = session]
         IN  IF session # NULL
             THEN StartFetch(q, session)
             ELSE [q EXCEPT !.profile = NoProfile, !.loading = FALSE]

\* signIn succeeds: the client holds the session and emits SIGNED_IN
SignIn(u) ==
    /\ client.events < MaxAuthEvents
    /\ client' = [session |-> u, events |-> client.events + 1]
    /\ provider' = AuthCallback(provider, u)
    /\ UNCHANGED <<storeVars, reqs>>

\* signOut: the client drops the session and emits SIGNED_OUT
SignOut ==
    /\ client.events < MaxAuthEvents
    /\ client.session # NULL
    /\ client' = [session |-> NULL, events |-> client.events + 1]
    /\ provider' = AuthCallback(provider, NULL)
    /\ UNCHANGED <<storeVars, reqs>>

\* supabase.auth.getSession().then(...): the initial session check
GetSessionResolved ==
    /\ provider.sessionCheck = "pending"
    /\ LET session == client.session
           p == [provider EXCEPT !.sessionCheck = "done"]
           q == [p EXCEPT !.session = session, !.user = session]
       IN  provider' = IF ~p.isMounted THEN p
                       ELSE IF session # NULL THEN StartFetch(q, session)
                       ELSE [q EXCEPT !.loading = FALSE]
    /\ UNCHANGED <<storeVars, reqs, client>>

\* How the query of a fetch can end: with the user's row or with none, with
\* an error in the result, or with an exception
FetchOutcomes(userId) ==
    {"error", "thrown"} \cup
    { IF \E p \in profiles : p.user_id = userId /\ ProfilesSelectPolicy(userId, p)
      THEN "row" ELSE "no row" }

\* Mutant: the exception is caught and nothing else is done
AfterFetch_NoFinally(p, outcome, row) ==
    IF ~p.isMounted \/ outcome = "thrown" THEN p
    ELSE IF p.version = 1
    THEN [p EXCEPT !.profile = IF outcome = "row" THEN row ELSE @, !.loading = FALSE]
    ELSE [p EXCEPT !.profile = IF outcome = "row" THEN row ELSE NoProfile,
                   !.loading = FALSE]

\* The rest of fetchProfile once its query has ended.
\* Version 1, .single(): no row is an error; if (isMounted && !error)
\* setProfile(profileData); finally if (isMounted) setLoading(false).
\* Version 2, .maybeSingle(): if (isMounted) { setProfile(profileData);
\* setLoading(false) }, profileData being null without a row or with an error;
\* catch: if (isMounted) setLoading(false).
AfterFetch(p, outcome, row) ==
    IF ~p.isMounted THEN p
    ELSE IF outcome = "thrown" THEN [p EXCEPT !.loading = FALSE]
    ELSE IF p.version = 1
    THEN [p EXCEPT !.profile = IF outcome = "row" THEN row ELSE @, !.loading = FALSE]
    ELSE [p EXCEPT !.profile = IF outcome = "row" THEN row ELSE NoProfile,
                   !.loading = FALSE]

\* The query of the k-th fetch ends
FetchSettles(k) ==
    /\ \E f \in provider.fetches :
         /\ f.k = k
         /\ \E outcome \in FetchOutcomes(f.userId) :
              provider' = AfterFetch([provider EXCEPT !.fetches = @ \ {f}], outcome,
                                     SelectProfile(f.userId))
    /\ UNCHANGED <<storeVars, reqs, client>>

\* The effect's cleanup: isMounted = false; subscription.unsubscribe()
Unmount ==
    /\ provider.isMounted
    /\ provider' = [provider EXCEPT !.isMounted = FALSE]
    /\ UNCHANGED <<storeVars, reqs, client>>

(***************************************************************************)
(* Specifications.                                                         *)
(***************************************************************************)
Step(s, tokens, endpoints, bodies, cap, serial) ==
    \/ Receive(s, tokens, endpoints, Methods, serial)
    \/ Deliver(s)
    \/ NotesGetUser(s)
    \/ NotesGetProfile(s)
    \/ NotesUpdate(s)
    \/ NotesDelete(s)
    \/ NotesCreateReadPlan(s, bodies, cap)
    \/ NotesCreateCount(s)
    \/ NotesCreateInsert(s)
    \/ NotesGetOne(s)
    \/ NotesList(s)
    \/ NotesMethodNotAllowed(s)
    \/ UpgradeGetUser(s)
    \/ UpgradeGetProfile(s)
    \/ UpgradeCheckTenant(s)
    \/ UpgradeUpdate(s)
    \/ handleUpgrade(s, tokens, serial)

\* Requests of every user, one at a time
Next == \E s \in Slots : Step(s, Tokens, {"notes", "upgrade"}, CreateBodies, MaxNotes, TRUE)
Spec == Init /\ [][Next]_vars

\* Requests of the users of one tenant, one at a time, with room for more
\* notes than the free plan allows
AcmeTokens == {"admin_acme", "user_acme"}
NextQuota ==
    \E s \in Slots : Step(s, AcmeTokens, {"notes", "upgrade"}, CreateBodies, MaxQuotaNotes, TRUE)
SpecQuota == Init /\ [][NextQuota]_vars

\* SpecQuota, and requests without a valid credential or without a profile
FrameTokens == AcmeTokens \cup {"newcomer", "bad_token"}
NextFrame ==
    \E s \in Slots : Step(s, FrameTokens, {"notes", "upgrade"}, ValidBodies, MaxQuotaNotes, TRUE)
SpecFrame == Init /\ [][NextFrame]_vars

\* Create requests of the two users of one tenant that overlap
NextRace ==
    \E s \in Slots :
        \/ Receive(s, AcmeTokens, {"notes"}, {"POST"}, FALSE)
        \/ Deliver(s)
        \/ NotesGetUser(s)
        \/ NotesGetProfile(s)
        \/ NotesCreateReadPlan(s, ValidBodies, MaxQuotaNotes)
        \/ NotesCreateCount(s)
        \/ NotesCreateInsert(s)
SpecRace == Init /\ [][NextRace]_vars

\* Create requests of the users of one tenant, one at a time, during which
\* the plan lookup or the count may fail
NextFault ==
    \E s \in Slots :
        \/ Receive(s, AcmeTokens, {"notes"}, {"POST"}, TRUE)
        \/ Deliver(s)
        \/ NotesGetUser(s)
        \/ NotesGetProfile(s)
        \/ NotesCreateReadPlan(s, ValidBodies, MaxQuotaNotes)
        \/ NotesCreateReadPlanFault(s, ValidBodies, MaxQuotaNotes)
        \/ NotesCreateCount(s)
        \/ NotesCreateCountFault(s)
        \/ NotesCreateInsert(s)
SpecFault == Init /\ [][NextFault]_vars

\* The page: sign-ins and sign-outs, the session check and the fetches. Every
\* promise settles: the session check resolves and each query ends.
NextAuth ==
    \/ \E u \in PageUsers : SignIn(u)
    \/ SignOut
    \/ GetSessionResolved
    \/ \E k \in 1..(MaxAuthEvents + 1) : FetchSettles(k)
    \/ Unmount
SpecAuth ==
    /\ InitAuth /\ [][NextAuth]_vars
    /\ WF_vars(GetSessionResolved)
    /\ \A k \in 1..(MaxAuthEvents + 1) : WF_vars(FetchSettles(k))

\* The users of one tenant, one request or one table statement at a time
NextTables ==
    \E s \in Slots :
        \/ Receive(s, AcmeTokens, {"notes"}, {"POST"}, TRUE)
        \/ Deliver(s)
        \/ NotesGetUser(s)
        \/ NotesGetProfile(s)
        \/ NotesCreateReadPlan(s, ValidBodies, MaxQuotaNotes)
        \/ NotesCreateCount(s)
        \/ NotesCreateInsert(s)
        \/ DirectTenantsUpdate(s, TRUE)
        \/ DirectProfileUpdate(s, AcmeTokens, TRUE)
        \/ DirectNotesInsert(s, AcmeTokens, ValidBodies, MaxQuotaNotes, TRUE)
SpecTables == Init /\ [][NextTables]_vars

\* Spec, and any signed-in user sending the tenants update straight to the table
NextDirect ==
    \/ Next
    \/ \E s \in Slots : DirectTenantsUpdate(s, TRUE)
SpecDirect == Init /\ [][NextDirect]_vars


(***************************************************************************)
(* Properties.                                                             *)
(***************************************************************************)
\* The stored profile of a user, the plan of a tenant, its notes
StoredProfile(uid) == Single({ p \in profiles : p.user_id = uid }, NoProfile)
PlanOf(t) == tenants[t].subscription_plan
PlanAfter(t) == tenants'[t].subscription_plan
NotesOf(t) == { n \in notes : n.tenant_id = t }

\* The request of slot s is answered in this step
Answers(s) == reqs[s].pc # "done" /\ reqs'[s].pc = "done"

\* C1: a GET notes/{id} by a provisioned principal P for the id of a stored
\* note N answers 200 with N when N.tenant = P.tenant, whoever owns N and
\* whatever P's role is, and 404 'Note not found' when N.tenant # P.tenant.
C1_GetIffSameTenant ==
    \A s \in Slots :
        LET r == reqs[s]
            P == StoredProfile(r.user)
        IN  (r.pc = "done" /\ r.ep = "notes" /\ r.op = "get" /\ P # NoProfile) =>
                \A N \in notes :
                    N.id = r.noteId =>
                        IF N.tenant_id = P.tenant_id
                        THEN r.status = 200 /\ r.out = <<N>>
                        ELSE r.status = 404 /\ r.err = "Note not found" /\ r.out = <<>>

\* A member of Globex has asked for a note of Acme and got the 404
C1_Witness ==
    \E s \in Slots :
        LET r == reqs[s] IN
            /\ r.pc = "done" /\ r.op = "get" /\ r.status = 404
            /\ r.user = "user_globex"
            /\ \E N \in notes : N.id = r.noteId /\ N.tenant_id = "T_acme"

\* C2: an update or delete by P naming N's id changes or removes N exactly
\* when N.tenant = P.tenant and N.owner = P; otherwise every note is left as
\* it was. An admin who is not the owner is no exception.
C2_MutateIffOwner ==
    [][ \A s \in Slots :
          LET r == reqs'[s]
              P == StoredProfile(r.user)
          IN  (Answers(s) /\ r.ep = "notes" /\ r.op \in {"update", "delete"}) =>
                /\ \A N \in notes :
                     IF N.id = r.noteId /\ N.tenant_id = P.tenant_id /\ N.user_id = P.user_id
                     THEN IF r.op = "delete"
                          THEN \A M \in notes' : M.id # N.id
                          ELSE /\ [N EXCEPT !.title = r.body.title,
                                            !.content = r.body.content] \in notes'
                               /\ Cardinality({ M \in notes' : M.id = N.id }) = 1
                               /\ r.status = 200
                     ELSE N \in notes'
                /\ \A M \in notes' : \E N \in notes : N.id = M.id
      ]_vars

\* The admin of Acme has sent an update for a note that a member of Acme owns
C2_Witness ==
    \E s \in Slots :
        LET r == reqs[s] IN
            /\ r.pc = "done" /\ r.op = "update"
            /\ r.profile.role = "admin"
            /\ \E N \in notes : /\ N.id = r.noteId
                                /\ N.tenant_id = r.profile.tenant_id
                                /\ N.user_id # r.user

\* A create request is answered in this step
CreateAnswers(s) == Answers(s) /\ reqs'[s].ep = "notes" /\ reqs'[s].op = "create"

\* C3: the quota decision of a create depends on the tenant's plan and note
\* count only: on the free plan the request is denied with 403 and nothing is
\* inserted when count >= 3, and is not denied when count < 3; on the pro
\* plan it is never denied.
C3_QuotaDecision ==
    [][ \A s \in Slots :
          LET r == reqs'[s]
              t == r.profile.tenant_id
          IN  CreateAnswers(s) =>
                /\ r.status = 403 <=> (PlanOf(t) = "free" /\ Cardinality(NotesOf(t)) >= 3)
                /\ r.status = 403 => (notes' = notes /\ nextId' = nextId)
                /\ r.status # 403 => r.status \in {201, 500}
      ]_vars

\* A create was allowed on the pro plan although the tenant held 4 notes already
C3_Witness ==
    \E s \in Slots :
        LET r == reqs[s] IN
            /\ r.pc = "done" /\ r.op = "create" /\ r.status = 201
            /\ PlanOf(r.profile.tenant_id) = "pro"
            /\ Cardinality(NotesOf(r.profile.tenant_id)) = 5

\* C4: with requests handled one at a time a free-plan tenant never holds
\* more than 3 notes: a create with a title is answered 201 while the tenant
\* holds fewer than 3 notes, and 403 with nothing inserted once it holds 3.
C4_FreePlanAtMostThree ==
    /\ \A t \in TenantIds : PlanOf(t) = "free" => Cardinality(NotesOf(t)) <= 3
    /\ \A s \in Slots :
         LET r == reqs[s]
             t == r.profile.tenant_id
         IN  (r.pc = "done" /\ r.op = "create" /\ PlanOf(t) = "free") =>
                /\ r.status = 403 => (Cardinality(NotesOf(t)) = 3 /\ r.out = <<>>)
                /\ (r.body.title # UNDEF /\ r.status # 201) => r.status = 403

\* The fourth create of a free-plan tenant has been denied
C4_Witness ==
    \E s \in Slots :
        LET r == reqs[s] IN
            /\ r.pc = "done" /\ r.op = "create" /\ r.status = 403
            /\ PlanOf(r.profile.tenant_id) = "free"
            /\ Cardinality(NotesOf(r.profile.tenant_id)) = 3
            /\ nextId = 4

\* C5: the count check and the insert are separate steps: every create that
\* inserts on the free plan has read a count below 3, and still the tenant
\* can end above 3 notes, by at most one note per further request in flight.
C5_QuotaRace ==
    /\ \A s \in Slots :
         LET r == reqs[s] IN
            (r.op = "create" /\ r.plan = "free" /\ (r.pc = "insert" \/ r.status = 201))
                => r.noteCount < 3
    /\ \A t \in TenantIds :
         PlanOf(t) = "free" => Cardinality(NotesOf(t)) <= 3 + (MaxInFlight - 1)

\* Two creates that both read count = 2 have both inserted: 4 notes on the free plan
C5_Witness ==
    /\ PlanOf("T_acme") = "free"
    /\ Cardinality(NotesOf("T_acme")) = 4
    /\ \E s1, s2 \in Slots :
         /\ s1 # s2
         /\ \A s \in {s1, s2} :
              /\ reqs[s].pc = "done" /\ reqs[s].op = "create" /\ reqs[s].status = 201
              /\ reqs[s].noteCount = 2

\* C6: a tenant's plan changes only in a step of a request whose caller is,
\* in the profiles table, an admin of that very tenant; no request of a
\* principal of another tenant, admin or not, changes it.
C6_PlanChangeOnlyByOwnAdmin ==
    [][ \A t \in TenantIds :
          PlanAfter(t) # PlanOf(t) =>
            \E s \in Slots :
                /\ Answers(s)
                /\ reqs'[s].op \in {"upgrade", "tenants.update"} \/ reqs'[s].ep = "upgrade"
                /\ StoredProfile(reqs'[s].user).tenant_id = t
                /\ StoredProfile(reqs'[s].user).role = "admin"
      ]_vars

\* The admin of Globex has asked for Acme's plan to be changed, through the
\* function and straight at the table, and Acme is still on the free plan
C6_Witness ==
    /\ PlanOf("T_acme") = "free"
    /\ \E s \in Slots :
         LET r == reqs[s] IN
            /\ r.pc = "done" /\ r.user = "admin_globex"
            /\ \/ r.ep = "upgrade" /\ TenantSlugOf(r.path) = "acme"
               \/ r.ep = "direct" /\ r.target = "T_acme" /\ r.plan = "pro"

\* C7: a POST to upgrade-tenant by a member is answered 403 'Admin access
\* required', and no step of the request changes a tenant.
C7_MemberUpgradeDenied ==
    [][ \A s \in Slots :
          LET r == reqs'[s] IN
            (reqs[s] # r /\ r.ep = "upgrade" /\ r.method = "POST"
               /\ StoredProfile(getUser(r.token)).role = "member") =>
                /\ tenants' = tenants
                /\ r.pc = "done" => (r.status = 403 /\ r.err = "Admin access required")
      ]_vars

\* A member of Acme has called upgrade and has the 403
C7_Witness ==
    \E s \in Slots :
        LET r == reqs[s] IN
            /\ r.pc = "done" /\ r.ep = "upgrade" /\ r.user = "user_acme"
            /\ r.status = 403
            /\ PlanOf("T_acme") = "free"

\* An upgrade by its tenant's admin succeeds in this step
UpgradeSucceeds(s) ==
    /\ Answers(s)
    /\ reqs'[s].ep \in {"upgrade", "dashboard"}
    /\ reqs'[s].status = 200

\* C8: when an admin's upgrade succeeds the tenant's plan is pro; a plan that
\* is pro stays pro; and a create with a title for a tenant whose plan is pro
\* is answered 201 with the note inserted, whatever the note count.
C8_ProIsUnlimited ==
    [][ /\ \A s \in Slots :
             UpgradeSucceeds(s) => PlanAfter(reqs'[s].profile.tenant_id) = "pro"
        /\ \A t \in TenantIds : PlanOf(t) = "pro" => PlanAfter(t) = "pro"
        /\ \A s \in Slots :
             LET r == reqs'[s]
                 t == r.profile.tenant_id
             IN  (CreateAnswers(s) /\ PlanOf(t) = "pro" /\ r.body.title # UNDEF) =>
                    /\ r.status = 201
                    /\ Len(r.out) = 1
                    /\ r.out[1] \notin notes
                    /\ notes' = notes \cup {r.out[1]}
                    /\ r.out[1].tenant_id = t
      ]_vars

\* After the upgrade the fourth note of the tenant has been created
C8_Witness ==
    \E s \in Slots :
        LET r == reqs[s] IN
            /\ r.pc = "done" /\ r.op = "create" /\ r.status = 201
            /\ r.plan = "pro" /\ PlanOf(r.profile.tenant_id) = "pro"
            /\ Cardinality(NotesOf(r.profile.tenant_id)) = 4

\* C9: an upgrade by the tenant's admin that names the tenant is answered 200
\* with the plan pro whether the plan was free or already pro before it; a
\* call on a tenant already pro leaves the plan as it is.
C9_UpgradeIdempotent ==
    [][ \A s \in Slots :
          LET r == reqs'[s]
              P == StoredProfile(r.user)
          IN  /\ (Answers(s) /\ r.ep = "upgrade" /\ r.method = "POST" /\ P.role = "admin"
                    /\ TenantSlugOf(r.path) = tenants[P.tenant_id].slug) =>
                    /\ r.status = 200 /\ r.outPlan = "pro"
                    /\ PlanAfter(P.tenant_id) = "pro"
                    /\ PlanOf(P.tenant_id) = "pro" => tenants' = tenants
              /\ (Answers(s) /\ r.ep = "dashboard") =>
                    /\ r.status = 200
                    /\ PlanAfter(P.tenant_id) = "pro"
                    /\ PlanOf(P.tenant_id) = "pro" => tenants' = tenants
      ]_vars

\* The second upgrade in a row: the function read the plan as pro and answered 200
C9_Witness ==
    \E s \in Slots :
        LET r == reqs[s] IN
            /\ r.pc = "done" /\ r.ep = "upgrade" /\ r.status = 200
            /\ r.plan = "pro"
            /\ PlanOf(r.profile.tenant_id) = "pro"

\* C10: a POST /functions/v1/upgrade-tenant with an admin's bearer token sets
\* the plan of the admin's tenant to pro and returns the updated tenant.
C10_ReadmeUpgradeWorks ==
    \A s \in Slots :
        LET r == reqs[s]
            P == StoredProfile(r.user)
        IN  (r.pc = "done" /\ r.ep = "upgrade" /\ r.method = "POST"
               /\ P.role = "admin" /\ r.path = ReadmePath) =>
                /\ r.status = 200
                /\ r.outPlan = "pro"
                /\ PlanOf(P.tenant_id) = "pro"

\* The note with this id is one the caller may read / may change
Readable(P, id) == \E N \in notes : N.id = id /\ N.tenant_id = P.tenant_id
Owned(P, id) ==
    \E N \in notes : N.id = id /\ N.tenant_id = P.tenant_id /\ N.user_id = P.user_id

\* What each operation answers for an id that matches no note at all
NoMatchResponse(op) ==
    CASE op = "get"    -> <<404, "Note not found", <<>>>>
      [] op = "update" -> <<500, "PGRST116", <<>>>>
      [] op = "delete" -> <<200, "", <<>>>>

\* A get, update or delete is answered in this step
NoteOpAnswers(s) ==
    Answers(s) /\ reqs'[s].ep = "notes" /\ reqs'[s].op \in {"get", "update", "delete"}

\* C11 (as claimed): for get, update and delete alike, the answer for the id of
\* a note of another tenant or of another owner is the answer for an id that
\* matches no note.
C11_NonDisclosureAsClaimed ==
    [][ \A s \in Slots :
          LET r == reqs'[s]
              P == StoredProfile(r.user)
          IN  (NoteOpAnswers(s) /\ ~Owned(P, r.noteId)) =>
                <<r.status, r.err, r.out>> = NoMatchResponse(r.op)
      ]_vars

\* C11 (amended): the answer to a get for the id of a note of another tenant,
\* and the answer to an update or delete for the id of a note of another
\* tenant or another owner, is the answer for an id that matches no note.
C11_NonDisclosure ==
    [][ \A s \in Slots :
          LET r == reqs'[s]
              P == StoredProfile(r.user)
              mine == IF r.op = "get" THEN Readable(P, r.noteId) ELSE Owned(P, r.noteId)
          IN  (NoteOpAnswers(s) /\ ~mine) =>
                <<r.status, r.err, r.out>> = NoMatchResponse(r.op)
      ]_vars

\* A member has sent an update for a note of a colleague and has the answer
C11_Witness ==
    \E s \in Slots :
        LET r == reqs[s] IN
            /\ r.pc = "done" /\ r.op = "update" /\ r.profile.role = "member"
            /\ \E N \in notes : /\ N.id = r.noteId
                                /\ N.tenant_id = r.profile.tenant_id
                                /\ N.user_id # r.user

\* C12: an update or delete whose id matches no note the caller owns in the
\* caller's tenant is answered NotFound (404): never a success, never another
\* class of error.
C12_NoMatchIsNotFound ==
    [][ \A s \in Slots :
          LET r == reqs'[s]
              P == StoredProfile(r.user)
          IN  (NoteOpAnswers(s) /\ r.op \in {"update", "delete"} /\ ~Owned(P, r.noteId)) =>
                r.status = 404
      ]_vars

\* What the handlers decide for the same principal and operation: create is
\* refused to a tenant on the free plan that has reached the limit (and to a
\* user without a profile); upgrade is granted to an admin for their own tenant
HandlerAllowsCreate(uid) ==
    LET P == StoredProfile(uid)
    IN  /\ P # NoProfile
        /\ ~(PlanIsLimited(PlanOf(P.tenant_id)) /\ OverQuota(get_tenant_note_count(P.tenant_id)))
HandlerAllowsUpgrade(uid, t) ==
    LET P == StoredProfile(uid)
    IN  ~AdminRequired(P) /\ P.tenant_id = t

\* C13: the row policies and the handlers decide alike: a create or upgrade
\* sent straight to the tables takes effect only if the handler would have
\* allowed it for that principal.
C13_SurfacesAgree ==
    [][ \A s \in Slots :
          LET r == reqs'[s] IN
              (Answers(s) /\ r.ep = "direct") =>
                /\ (r.op = "notes.insert" /\ notes' # notes) => HandlerAllowsCreate(r.user)
                /\ (r.op = "tenants.update" /\ r.plan = "pro" /\ tenants' # tenants) =>
                       HandlerAllowsUpgrade(r.user, r.target)
      ]_vars

\* C14: every stored note carries the tenant of its owner's profile, whatever
\* requests and permitted table statements came before.
C14_NoteTenantIsOwnerTenant ==
    \A N \in notes : StoredProfile(N.user_id).tenant_id = N.tenant_id

\* C15: the role and the tenant of a profile never change once it exists; in
\* particular a member never becomes an admin.
C15_ProfileImmutable ==
    [][ \A p \in profiles :
          \E q \in profiles' :
              q.user_id = p.user_id /\ q.tenant_id = p.tenant_id /\ q.role = p.role
      ]_vars

\* C16: a tenant's plan only ever moves from free to pro: no step sets a plan
\* back to free, and no step removes a tenant.
C16_PlanOnlyUpgrades ==
    [][ /\ DOMAIN tenants' = DOMAIN tenants
        /\ \A t \in TenantIds :
              PlanAfter(t) # PlanOf(t) => (PlanOf(t) = "free" /\ PlanAfter(t) = "pro")
      ]_vars

\* Slot s sends an insert, update or delete to the store in this step
IssuesMutation(s) ==
    \/ /\ reqs[s].ep = "notes" /\ reqs[s].pc = "route"
       /\ reqs'[s].op \in {"update", "delete"}
    \/ reqs[s].ep = "notes" /\ reqs[s].pc = "insert" /\ reqs'[s].pc = "done"
    \/ reqs[s].ep = "upgrade" /\ reqs[s].pc = "update" /\ reqs'[s].pc = "done"

\* The checks the handler makes before the statement: principal, profile, and
\* the quota (create) or the role and the slug (upgrade)
ChecksBeforeStatement(s) ==
    LET r == reqs[s] IN
        /\ r.user # NoUser /\ r.profile # NoProfile
        /\ r.pc = "insert" => (PlanIsLimited(r.plan) => ~OverQuota(r.noteCount))
        /\ r.pc = "update" => /\ ~AdminRequired(r.profile)
                              /\ ~SlugMismatch(r.user, r.profile.tenant_id, TenantSlugOf(r.path))

\* The tenant and owner check of an update or delete
OwnerCheck(s) ==
    reqs'[s].op \in {"update", "delete"} => Owned(reqs[s].profile, reqs'[s].noteId)

\* C17 (as claimed): every authorization check, the tenant and owner check
\* included, has passed before an insert, update or delete is sent to the store.
C17_ChecksBeforeCallAsClaimed ==
    [][ \A s \in Slots : IssuesMutation(s) => (ChecksBeforeStatement(s) /\ OwnerCheck(s)) ]_vars

\* C17 (amended): the principal and the profile are resolved and the role, slug
\* and quota checks have passed before a handler sends an insert, update or
\* delete; the tenant and owner check of an update or delete is part of the
\* statement, and a handler changes a table only in a step where all of them pass.
C17_ChecksBeforeChange ==
    [][ /\ \A s \in Slots : IssuesMutation(s) => ChecksBeforeStatement(s)
        /\ storeVars' # storeVars =>
              \E s \in Slots :
                  \/ reqs'[s].ep = "dashboard"
                  \/ IssuesMutation(s) /\ ChecksBeforeStatement(s) /\ OwnerCheck(s)
      ]_vars

\* A member's delete for a colleague's note has been sent and answered, and
\* the note is still stored
C17_Witness ==
    \E s \in Slots :
        LET r == reqs[s] IN
            /\ r.pc = "done" /\ r.op = "delete" /\ r.profile.role = "member"
            /\ \E N \in notes : /\ N.id = r.noteId
                                /\ N.tenant_id = r.profile.tenant_id
                                /\ N.user_id # r.user

\* The request of slot s came without a credential the auth service accepts
BadCredential(r) == r.ep \in {"notes", "upgrade"} /\ r.token \notin AuthUsers

C19_NoProfileIs404 ==
    [][ \A s \in Slots :
          LET r == reqs'[s] IN
              (/\ Answers(s) /\ r.ep \in {"notes", "upgrade"}
               /\ r.user # NoUser /\ StoredProfile(r.user) = NoProfile) =>
                r.status = 404 /\ storeVars' = storeVars
      ]_vars

\* C20: a create (or update) with an empty title is refused and stores
\* nothing, so every stored note has a non-empty title.
C20_TitlesNonEmpty ==
    \A N \in notes : N.title # ""

\* C21: a create request during which the plan lookup or the count failed
\* ends in an error and inserts no note.
C21_FaultIsNoBypass ==
    [][ \A s \in Slots :
          LET r == reqs'[s] IN
              (Answers(s) /\ r.op = "create" /\ r.fault # "") =>
                r.status >= 400 /\ notes' = notes
      ]_vars

\* C22: the answer to a list request of principal P holds each stored note
\* of P's tenant once, whoever owns it, holds no other note, and is ordered
\* by created_at, newest first.
C22_ListIsTenantNewestFirst ==
    \A s \in Slots :
        LET r == reqs[s]
            P == StoredProfile(r.user)
        IN  (r.pc = "done" /\ r.ep = "notes" /\ r.op = "list") =>
              /\ r.status = 200
              /\ { r.out[i] : i \in 1..Len(r.out) } = NotesOf(P.tenant_id)
              /\ Len(r.out) = Cardinality(NotesOf(P.tenant_id))
              /\ \A i \in 1..Len(r.out), j \in 1..Len(r.out) :
                    i < j => r.out[i].created_at > r.out[j].created_at

\* A list was answered with notes of two owners while another tenant holds a note
C22_Witness ==
    \E s \in Slots :
        LET r == reqs[s] IN
            /\ r.pc = "done" /\ r.op = "list" /\ Len(r.out) >= 2
            /\ \E i, j \in 1..Len(r.out) : r.out[i].user_id # r.out[j].user_id
            /\ \E N \in notes : N.tenant_id # r.profile.tenant_id

\* C23: every answer of the notes handler to a principal of tenant A is
\* determined by the request and by A's own notes and plan, so two runs that
\* differ only in the notes and plan of another tenant give A the same
\* answers; the count used for A's quota is the number of A's notes.
C23_TenantNoninterference ==
    [][ \A s \in Slots :
          LET r == reqs'[s]
              A == r.profile.tenant_id
              mine == { N \in NotesOf(A) : N.id = r.noteId }
          IN  (Answers(s) /\ r.ep = "notes" /\ r.profile # NoProfile) =>
                /\ r.op = "list" => { r.out[i] : i \in 1..Len(r.out) } = NotesOf(A)
                /\ r.op = "get" => /\ r.status = 200 <=> mine # {}
                                   /\ { r.out[i] : i \in 1..Len(r.out) } = mine
                /\ r.op = "update" =>
                       (r.status = 200 <=> \E N \in mine : N.user_id = r.user)
                /\ r.op = "delete" => r.status = 200
                /\ r.op = "create" =>
                       /\ r.plan = PlanOf(A)
                       /\ r.plan = "free" => r.noteCount = Cardinality(NotesOf(A))
                       /\ r.status = 403 <=>
                             (PlanOf(A) = "free" /\ Cardinality(NotesOf(A)) >= QuotaLimit)
      ]_vars

\* A create of a free tenant was counted while another tenant, on the pro
\* plan, holds notes
C23_Witness ==
    \E s \in Slots :
        LET r == reqs[s] IN
            /\ r.pc = "done" /\ r.op = "create" /\ r.plan = "free" /\ r.status = 201
            /\ \E B \in TenantIds :
                  B # r.profile.tenant_id /\ PlanOf(B) = "pro" /\ NotesOf(B) # {}

\* C24: the quota check of a create reads the number of notes the tenant
\* holds in the store at that moment, deleted notes no longer counted: the
\* request goes on to the insert exactly when that number is below the limit.
C24_LiveCount ==
    [][ \A s \in Slots :
          LET t == reqs[s].profile.tenant_id
              live == Cardinality(NotesOf(t))
          IN  (reqs[s].pc = "count" /\ reqs'[s] # reqs[s]) =>
                /\ reqs'[s].noteCount = live
                /\ live < QuotaLimit => reqs'[s].pc = "insert"
                /\ live >= QuotaLimit => (reqs'[s].pc = "done" /\ reqs'[s].status = 403)
      ]_vars

\* On the free plan: three notes were created, one was deleted, the next
\* create was allowed, and the create after it has been denied
C24_Witness ==
    \E s \in Slots :
        LET r == reqs[s] IN
            /\ r.pc = "done" /\ r.op = "create" /\ r.status = 403
            /\ PlanOf(r.profile.tenant_id) = "free"
            /\ Cardinality(NotesOf(r.profile.tenant_id)) = 3
            /\ nextId = 5

\* C25: a request during which a store call failed is answered with the one
\* generic failure response, 500 'Internal server error', whose body holds
\* no text supplied by the store.
C25_FaultsAreGeneric ==
    \A s \in Slots :
        LET r == reqs[s] IN
            (r.pc = "done" /\ r.ep \in {"notes", "upgrade"} /\ r.status = 500) =>
                r.err = "Internal server error"

\* C26: a PUT notes/:id request of a provisioned user is handled as an update
\* and a DELETE notes/:id request as a delete; neither is refused as a method
\* the endpoint does not allow.
C26_PutAndDeleteVerbs ==
    \A s \in Slots :
        LET r == reqs[s] IN
            (r.pc = "done" /\ r.ep = "notes" /\ r.profile # NoProfile) =>
                /\ r.method = "PUT" => (r.op = "update" /\ r.status # 405)
                /\ r.method = "DELETE" => (r.op = "delete" /\ r.status # 405)

\* C27: whoever changes a tenant's plan holds the admin role in that tenant
\* when the update is made, and was created with it: a user created as a
\* member never causes a plan change.
C27_PlanChangeByCreatedAdmin ==
    [][ \A t \in TenantIds :
          PlanAfter(t) # PlanOf(t) =>
            \E s \in Slots :
                LET r == reqs'[s] IN
                    /\ Answers(s)
                    /\ StoredProfile(r.user).role = "admin"
                    /\ StoredProfile(r.user).tenant_id = t
                    /\ \E p \in SeedProfiles : p.user_id = r.user /\ p.role = "admin"
      ]_vars

\* C28: a request to the notes handler or the upgrade handler that is
\* answered 401, 403, 404 or 405 changes no note, profile or tenant row in
\* any of its steps, and a GET request changes none whatever its answer.
C28_Frame ==
    [][ \A s \in Slots :
          LET r == reqs'[s] IN
              (/\ r # reqs[s] /\ r.ep \in {"notes", "upgrade"}
               /\ \/ r.pc # "done"
                  \/ r.status \in {401, 403, 404, 405}
                  \/ r.method = "GET") =>
                storeVars' = storeVars
      ]_vars

\* An admin's upgrade request was answered 404 while notes are stored, and
\* the tenant is on the free plan as before
C28_Witness ==
    \E s \in Slots :
        LET r == reqs[s] IN
            /\ r.pc = "done" /\ r.ep = "upgrade" /\ r.status = 404
            /\ r.profile.role = "admin"
            /\ PlanOf(r.profile.tenant_id) = "free"
            /\ NotesOf(r.profile.tenant_id) # {}

\* C29: AuthProvider holds no stale profile: once the session check is done
\* and no profile fetch is outstanding, the profile is null if the client
\* holds no session, and otherwise is null or the profile of the session's user.
C29_NoStaleProfile ==
    (provider.isMounted /\ provider.sessionCheck = "done" /\ provider.fetches = {}) =>
        /\ client.session = NULL => provider.profile = NoProfile
        /\ (client.session # NULL /\ provider.profile # NoProfile) =>
               provider.profile.user_id = client.session

\* C30: while AuthProvider stays mounted, loading becomes false and stays
\* false, however the session check and the profile fetches end; and once
\* false it is never set to true again.
C30_LoadingEnds ==
    /\ [][provider.loading = FALSE => provider'.loading = FALSE]_vars
    /\ ([]provider.isMounted) => <>[](provider.loading = FALSE)

\* Mounted, signed in, every fetch ended, none of them gave a profile, and
\* loading is false
C30_Witness ==
    /\ provider.isMounted /\ provider.loading = FALSE
    /\ provider.sessionCheck = "done"
    /\ provider.user # NULL /\ provider.started >= 2 /\ provider.fetches = {}
    /\ provider.profile = NoProfile

====
